---- MODULE Spec2Model ----
(***************************************************************************)
(* ascn-rs-cli: conversion of one chess game between the binary ASCN form  *)
(* and move-numbered text.  The model follows src/main.rs: the notation    *)
(* generator get_san, the parser visitor PGNVisitor and the two branches   *)
(* of main.  A String is a sequence of one-character strings.              *)
(***************************************************************************)
EXTENDS Integers, Sequences, FiniteSets, TLC

VARIABLES
    engine,     \* the rules engine's verdict on the position a move leads to
    sanIn,      \* get_san's arguments: [move, board]
    sanOut,     \* get_san's result, <<>> before the call
    sanDone,    \* whether get_san has returned
    run,        \* 1: the conversion; 2: the conversion of its output, back
    ext,        \* extension of args.input
    samePath,   \* args.output names the input file
    inBytes,    \* what an .ascn input file holds
    inFile,     \* the input path: "absent", "original", "truncated"
    outFile,    \* the output path: [exists, old, data]; old: not of this run
    held,       \* output_file is open
    creates,    \* how many times File::create succeeded
    pc,         \* where main is
    err,        \* the stage that panicked, None while none has
    produced,   \* what the run set out to write: get_data's bytes, the text
    visitor,    \* the PGNVisitor
    games,      \* start_game events so far
    outcomeGame,\* value of games when end_game last set the outcome
    reader,     \* the ascn Reader
    board,      \* main's board
    current_move,
    movetext,
    outcome,    \* main's outcome string
    piece,      \* which part of the write! is next
    stream      \* the (move, board) pairs the loop gave get_san

\* ------------------------------------------------------------------------
\* The chess crate's values, as far as main.rs reads them
\* ------------------------------------------------------------------------

FileChars == <<"a", "b", "c", "d", "e", "f", "g", "h">>
RankChars == <<"1", "2", "3", "4", "5", "6", "7", "8">>

Sq(f, r) == [file |-> f, rank |-> r]
E2 == Sq(5, 2)
E4 == Sq(5, 4)
E8 == Sq(5, 8)
A1 == Sq(1, 1)
D8 == Sq(4, 8)
H7 == Sq(8, 7)

\* The squares of the board the model follows.
Squares == {E2, E4, E8}

\* Square::to_string: file letter, then rank digit.
SquareName(sq) == <<FileChars[sq.file], RankChars[sq.rank]>>

Pieces == {"Pawn", "Knight", "Bishop", "Rook", "Queen", "King"}
Colors == {"White", "Black"}
None == "None"

Opposite(c) == IF c = "White" THEN "Black" ELSE "White"

Man(p, c) == [piece |-> p, color |-> c]

\* An empty square.
Empty == Man(None, None)

\* What the rules engine finds in the position after a move: no check, a
\* check with a reply, a check without one, or no check and no legal move.
Verdicts == {"quiet", "check", "mate", "stalemate"}

\* The engine is a function of the move and the board; the model lets it be
\* any function of the square the move lands on.
Engines == [Squares -> Verdicts]

\* Board::default(), cut down to the squares followed.
DefaultBoard ==
    [occ |-> [sq \in Squares |->
                 IF sq = E2 THEN Man("Pawn", "White")
                 ELSE IF sq = E8 THEN Man("King", "Black")
                 ELSE Empty],
     side |-> "White",
     checkers |-> {},
     anyMove |-> TRUE]

\* Board::piece_on: Option<Piece>.
piece_on(bd, sq) == bd.occ[sq].piece

\* Board::side_to_move.
side_to_move(bd) == bd.side

\* Board::checkers: the set of squares giving check (BitBoard(0) is {}).
checkers(bd) == bd.checkers

\* Board::status: no legal move is Checkmate under check, Stalemate without.
status(bd) ==
    IF bd.anyMove THEN "Ongoing"
    ELSE IF bd.checkers = {} THEN "Stalemate"
    ELSE "Checkmate"

\* ChessMove::get_source, get_dest, get_promotion.
Move(s, d, p) == [source |-> s, dest |-> d, promotion |-> p]
get_source(m) == m.source
get_dest(m) == m.dest
get_promotion(m) == m.promotion

\* Board::make_move_new: the mover leaves its square and lands (promoted, if
\* the move says so) on the destination, the side to move flips, and the
\* engine reports check and legal replies for the new position.
make_move_new(bd, m) ==
    LET mover == bd.occ[m.source]
        landed == IF m.promotion = None THEN mover
                  ELSE Man(m.promotion, mover.color)
        verdict == engine[m.dest]
    IN  [occ |-> [sq \in DOMAIN bd.occ |->
                     IF sq = m.dest THEN landed
                     ELSE IF sq = m.source THEN Empty
                     ELSE bd.occ[sq]],
         side |-> Opposite(bd.side),
         checkers |-> IF verdict \in {"check", "mate"} THEN {m.dest} ELSE {},
         anyMove |-> verdict \in {"quiet", "check"}]

\* ------------------------------------------------------------------------
\* Notation generator
\* ------------------------------------------------------------------------

get_piece(kind) ==
    CASE kind = "Pawn" -> <<"P">>
      [] kind = "Knight" -> <<"N">>
      [] kind = "Bishop" -> <<"B">>
      [] kind = "Rook" -> <<"R">>
      [] kind = "Queen" -> <<"Q">>
      [] kind = "King" -> <<"K">>

\* SanCapture looking at the source square instead.
SanCaptureSource(bd, chess_move) ==
    IF piece_on(bd, get_source(chess_move)) # None THEN <<"x">> ELSE <<>>

SanCapture(bd, chess_move) ==
    IF piece_on(bd, get_dest(chess_move)) # None THEN <<"x">> ELSE <<>>

SanPromotion(chess_move) ==
    IF get_promotion(chess_move) # None
    THEN <<"=">> \o get_piece(get_promotion(chess_move))
    ELSE <<>>

\* SanSuffix with the two tests in the other order.
SanSuffixCheckFirst(new_board) ==
    IF checkers(new_board) # {} THEN <<"+">>
    ELSE IF status(new_board) = "Checkmate" THEN <<"#">>
    ELSE <<>>

SanSuffix(new_board) ==
    IF status(new_board) = "Checkmate" THEN <<"#">>
    ELSE IF checkers(new_board) # {} THEN <<"+">>
    ELSE <<>>

get_san(chess_move, bd) ==
    LET new_board == make_move_new(bd, chess_move)
    IN  get_piece(piece_on(bd, get_source(chess_move)))
        \o SquareName(get_source(chess_move))
        \o SanCapture(bd, chess_move)
        \o SquareName(get_dest(chess_move))
        \o SanPromotion(chess_move)
        \o SanSuffix(new_board)

\* ------------------------------------------------------------------------
\* Strings
\* ------------------------------------------------------------------------

RECURSIVE Count(_, _)
\* How many times character ch occurs in string s.
Count(s, ch) ==
    IF s = <<>> THEN 0
    ELSE (IF Head(s) = ch THEN 1 ELSE 0) + Count(Tail(s), ch)

Last(s) == s[Len(s)]

IsPrefix(p, s) == Len(p) <= Len(s) /\ SubSeq(s, 1, Len(p)) = p

Digits == <<"0", "1", "2", "3", "4", "5", "6", "7", "8", "9">>

RECURSIVE Dec(_)
\* format!("{}", n) of an unsigned integer: its decimal digits.
Dec(n) ==
    IF n < 10 THEN <<Digits[n + 1]>>
    ELSE Dec(n \div 10) \o <<Digits[(n % 10) + 1]>>

\* ------------------------------------------------------------------------
\* Outcome codec (ascn_rs::outcome::Outcome)
\* ------------------------------------------------------------------------

Outcomes == {"WhiteWins", "BlackWins", "Draw", "Unknown"}

WhiteToken == <<"1", "-", "0">>
BlackToken == <<"0", "-", "1">>
DrawToken == <<"1", "/", "2", "-", "1", "/", "2">>
UnknownToken == <<"*">>

\* Outcome::from_string: total, an unmatched token is Unknown.
OutcomeFromString(t) ==
    CASE t = WhiteToken -> "WhiteWins"
      [] t = BlackToken -> "BlackWins"
      [] t = DrawToken -> "Draw"
      [] OTHER -> "Unknown"

\* Outcome::to_string.
OutcomeToString(o) ==
    CASE o = "WhiteWins" -> WhiteToken
      [] o = "BlackWins" -> BlackToken
      [] o = "Draw" -> DrawToken
      [] OTHER -> UnknownToken

\* ------------------------------------------------------------------------
\* Legal moves (what SAN::to_move resolves to, what Reader::next yields)
\* ------------------------------------------------------------------------

PromotionsOf(bd, s, d) ==
    IF bd.occ[s].piece = "Pawn" /\ d.rank \in {1, 8}
    THEN {"Queen", "Knight", "Rook", "Bishop"}
    ELSE {None}

\* A man of the side to move goes to a square its own side does not hold and
\* the enemy king does not stand on; a pawn reaching the last rank promotes;
\* a position without a legal move has none.
LegalMoves(bd) ==
    IF ~bd.anyMove THEN {}
    ELSE UNION { { Move(s, d, p) : p \in PromotionsOf(bd, s, d) } :
                 <<s, d>> \in { sd \in Squares \X Squares :
                                  /\ sd[1] # sd[2]
                                  /\ bd.occ[sd[1]].color = bd.side
                                  /\ bd.occ[sd[2]].color # bd.side
                                  /\ bd.occ[sd[2]].piece # "King" } }

\* ------------------------------------------------------------------------
\* PGNVisitor: a record [board, writer, outcome]; the writer is the list of
\* (move, board) records add_move was given
\* ------------------------------------------------------------------------

Record(m, b) == [move |-> m, board |-> b]

\* PGNVisitor::new
NewVisitor == [board |-> DefaultBoard, writer |-> <<>>, outcome |-> None]

start_game(self) == [self EXCEPT !.board = DefaultBoard, !.writer = <<>>]

end_game(self, oc) == [self EXCEPT !.outcome = OutcomeFromString(oc)]

header(self) == self

\* san recording the board after the move instead of the one before.
sanRecordsAfter(self, chess_move) ==
    [self EXCEPT !.writer = Append(self.writer,
                                   Record(chess_move, make_move_new(self.board, chess_move))),
                 !.board = make_move_new(self.board, chess_move)]

\* san without the board moving on.
sanKeepsBoard(self, chess_move) ==
    [self EXCEPT !.writer = Append(self.writer, Record(chess_move, self.board))]

\* san, with chess_move the move san.to_move(&self.board) resolved to.
san(self, chess_move) ==
    [self EXCEPT !.writer = Append(self.writer, Record(chess_move, self.board)),
              !.board = make_move_new(self.board, chess_move)]

\* ------------------------------------------------------------------------
\* Binary codec (ascn_rs Writer::get_data, Reader): two bytes a move, then
\* one byte for the outcome when there is one, so that an odd length tells an
\* outcome is there
\* ------------------------------------------------------------------------

SquareIndex(sq) == (sq.rank - 1) * 8 + (sq.file - 1)
SquareAt(i) == Sq((i % 8) + 1, (i \div 8) + 1)

PromotionCode(p) ==
    CASE p = "Queen" -> 0 [] p = "Knight" -> 1 [] p = "Rook" -> 2
      [] p = "Bishop" -> 3 [] OTHER -> 0
PromotionAt(c) ==
    CASE c = 0 -> "Queen" [] c = 1 -> "Knight" [] c = 2 -> "Rook"
      [] OTHER -> "Bishop"

OutcomeCode(o) ==
    CASE o = "WhiteWins" -> 0 [] o = "BlackWins" -> 1 [] o = "Draw" -> 2
      [] OTHER -> 3
OutcomeAt(c) ==
    CASE c = 0 -> "WhiteWins" [] c = 1 -> "BlackWins" [] c = 2 -> "Draw"
      [] OTHER -> "Unknown"

\* First byte: source square, 64 added when the move promotes.  Second byte:
\* destination square, 64 times the promotion's code added.
EncodeMove(m) ==
    << SquareIndex(m.source) + (IF m.promotion = None THEN 0 ELSE 64),
       SquareIndex(m.dest) + 64 * PromotionCode(m.promotion) >>

DecodeMove(b1, b2) ==
    Move(SquareAt(b1 % 64), SquareAt(b2 % 64),
         IF b1 \div 64 = 1 THEN PromotionAt(b2 \div 64) ELSE None)

RECURSIVE EncodeMoves(_)
EncodeMoves(records) ==
    IF records = <<>> THEN <<>>
    ELSE EncodeMove(Head(records).move) \o EncodeMoves(Tail(records))

\* Writer::get_data(outcome): the moves, then 128 + the outcome's code.
get_data(writer, oc) ==
    EncodeMoves(writer)
    \o (IF oc = None THEN <<>> ELSE <<128 + OutcomeCode(oc)>>)

\* Reader::new
NewReader(buf) == [data |-> buf, pos |-> 1, board |-> DefaultBoard]

\* Reader::next has a move to give.
ReaderHasNext(r) == r.pos + 1 <= Len(r.data)

\* Reader::next: the move and the board after it.
ReaderItem(r) ==
    LET m == DecodeMove(r.data[r.pos], r.data[r.pos + 1])
    IN  <<m, make_move_new(r.board, m)>>

ReaderAdvance(r) ==
    [r EXCEPT !.pos = r.pos + 2, !.board = ReaderItem(r)[2]]

\* Reader::get_outcome: Option<Outcome>.
get_outcome(r) ==
    IF Len(r.data) % 2 = 1
    THEN OutcomeAt(Last(r.data) - 128)
    ELSE None

\* ------------------------------------------------------------------------
\* main
\* ------------------------------------------------------------------------

MaxMoves == 3
MaxGames == 2

sanVars == <<sanIn, sanOut, sanDone>>
envVars == <<engine, ext, samePath, inBytes>>
visVars == <<visitor, games, outcomeGame>>
binVars == <<reader, board, current_move, movetext, outcome, piece, stream>>

vars == <<engine, sanIn, sanOut, sanDone, run, ext, samePath, inBytes, inFile,
          outFile, held, creates, pc, err, produced, visitor, games, outcomeGame,
          reader, board, current_move, movetext, outcome, piece, stream>>

RECURSIVE GamesFrom(_, _)
\* The legal games of at most n half-moves from a board, as (move, board)
\* records.
GamesFrom(b, n) ==
    IF n = 0 THEN {<<>>}
    ELSE {<<>>} \cup
         UNION { { <<Record(m, b)>> \o g : g \in GamesFrom(make_move_new(b, m), n - 1) } :
                 m \in LegalMoves(b) }

\* What an .ascn file written by the Writer can hold.
AscnFiles ==
    { get_data(g, o) : g \in GamesFrom(DefaultBoard, MaxMoves),
                       o \in Outcomes \cup {None} }

\* The result tokens a PGN file can end a game with.
OutcomeTokens == {WhiteToken, BlackToken, DrawToken, UnknownToken, <<"?">>}

NoFile == [exists |-> FALSE, old |-> FALSE, data |-> <<>>]
OldFile == [exists |-> TRUE, old |-> TRUE, data |-> <<"o", "l", "d">>]

SanIdle ==
    /\ sanIn = [move |-> Move(E2, E4, None), board |-> DefaultBoard]
    /\ sanOut = <<>>
    /\ sanDone = TRUE

MainIdle ==
    /\ pc = "start" /\ err = None /\ produced = <<>>
    /\ held = FALSE /\ creates = 0
    /\ visitor = NewVisitor /\ games = 0 /\ outcomeGame = 0
    /\ reader = NewReader(<<>>) /\ board = DefaultBoard
    /\ current_move = 1 /\ movetext = <<>> /\ outcome = <<>>
    /\ piece = 1 /\ stream = <<>>

Init ==
    /\ engine \in Engines
    /\ SanIdle
    /\ run = 1
    /\ ext \in {"pgn", "ascn", "txt", None}
    /\ samePath \in BOOLEAN
    /\ inBytes \in (IF ext = "ascn" THEN AscnFiles ELSE {<<>>})
    /\ inFile \in {"absent", "original"}
    /\ outFile \in (IF samePath
                    THEN {IF inFile = "absent" THEN NoFile ELSE OldFile}
                    ELSE {NoFile, OldFile})
    /\ MainIdle

\* A panic: the stage is reported, main unwinds and output_file is dropped.
Panic(stage) ==
    /\ pc' = "panic"
    /\ err' = stage
    /\ held' = FALSE

\* Lines 78-88: the input format from the extension.
ParseExtension ==
    /\ pc = "start"
    /\ \/ /\ ext \in {"ascn", "pgn"}
          /\ pc' = "create"
          /\ UNCHANGED <<err, held>>
       \/ /\ ext \notin {"ascn", "pgn"}
          /\ Panic("extension")
    /\ UNCHANGED <<sanVars, envVars, visVars, binVars, run, inFile, outFile,
                   creates, produced>>

\* File::create: the file exists and is empty afterwards.
Created == [exists |-> TRUE, old |-> FALSE, data |-> <<>>]

\* Lines 90-96: File::create on the output path.
CreateOutput ==
    /\ pc = "create"
    /\ \/ /\ outFile' = Created
          /\ inFile' = IF samePath THEN "truncated" ELSE inFile
          /\ held' = TRUE
          /\ creates' = creates + 1
          /\ pc' = IF ext = "pgn" THEN "read_pgn" ELSE "open_ascn"
          /\ UNCHANGED err
       \/ /\ Panic("create")
          /\ UNCHANGED <<outFile, inFile, creates>>
    /\ UNCHANGED <<sanVars, envVars, visVars, binVars, run, produced>>

\* Lines 99-102: read_to_string, PGNVisitor::new.
ReadToString ==
    /\ pc = "read_pgn"
    /\ \/ /\ inFile # "absent"
          /\ pc' = "parse"
          /\ visitor' = NewVisitor
          /\ UNCHANGED <<err, held>>
       \/ /\ Panic("read")
          /\ UNCHANGED visitor
    /\ UNCHANGED <<sanVars, envVars, binVars, run, inFile, outFile, creates,
                   produced, games, outcomeGame>>

\* Line 103, reader.read(&mut visitor): the parser's events, one at a time.
\* A truncated input file holds no text, so no event.
Parsing == pc = "parse" /\ inFile = "original"

StartGame ==
    /\ Parsing
    /\ games < MaxGames
    /\ visitor' = start_game(visitor)
    /\ games' = games + 1
    /\ UNCHANGED <<sanVars, envVars, binVars, run, inFile, outFile, held,
                   creates, pc, err, produced, outcomeGame>>

EndGame ==
    /\ Parsing
    /\ \E tok \in OutcomeTokens : visitor' = end_game(visitor, tok)
    /\ outcomeGame' = games
    /\ UNCHANGED <<sanVars, envVars, binVars, run, inFile, outFile, held,
                   creates, pc, err, produced, games>>

Header ==
    /\ Parsing
    /\ visitor' = header(visitor)
    /\ UNCHANGED <<sanVars, envVars, binVars, run, inFile, outFile, held,
                   creates, pc, err, produced, games, outcomeGame>>

\* A move token that resolves against the visitor's board.
SanEvent ==
    /\ Parsing
    /\ Len(visitor.writer) < MaxMoves
    /\ \E chess_move \in LegalMoves(visitor.board) : visitor' = san(visitor, chess_move)
    /\ UNCHANGED <<sanVars, envVars, binVars, run, inFile, outFile, held,
                   creates, pc, err, produced, games, outcomeGame>>

\* A move token that does not: to_move panics.
SanUnresolved ==
    /\ Parsing
    /\ Panic("resolve")
    /\ UNCHANGED <<sanVars, envVars, visVars, binVars, run, inFile, outFile,
                   creates, produced>>

EndOfInput ==
    /\ pc = "parse"
    /\ pc' = "write_pgn"
    /\ UNCHANGED <<sanVars, envVars, visVars, binVars, run, inFile, outFile,
                   held, creates, err, produced>>

\* The byte counts one write call of a buffer may accept.
WriteAccepts(buf) == IF buf = <<>> THEN {0} ELSE 1 .. Len(buf)

\* WriteData leaving part of the bytes behind when it fails.
WriteDataPartial ==
    /\ pc = "write_pgn"
    /\ produced' = get_data(visitor.writer, visitor.outcome)
    /\ \/ /\ \E n \in WriteAccepts(produced') :
                outFile' = [outFile EXCEPT !.data = SubSeq(produced', 1, n)]
          /\ pc' = "flush"
          /\ UNCHANGED <<err, held>>
       \/ /\ \E n \in WriteAccepts(produced') :
                outFile' = [outFile EXCEPT !.data = SubSeq(produced', 1, n)]
          /\ Panic("write")
    /\ UNCHANGED <<sanVars, envVars, visVars, binVars, run, inFile, creates>>

\* Lines 105-107: one write call of get_data's bytes; the count is dropped.
WriteData ==
    /\ pc = "write_pgn"
    /\ produced' = get_data(visitor.writer, visitor.outcome)
    /\ \/ /\ \E n \in WriteAccepts(produced') :
                outFile' = [outFile EXCEPT !.data = SubSeq(produced', 1, n)]
          /\ pc' = "flush"
          /\ UNCHANGED <<err, held>>
       \/ /\ Panic("write")
          /\ UNCHANGED outFile
    /\ UNCHANGED <<sanVars, envVars, visVars, binVars, run, inFile, creates>>

\* Lines 108-110 and 151-153: flush, then main returns and drops the file.
Flush ==
    /\ pc = "flush"
    /\ \/ /\ pc' = "done"
          /\ held' = FALSE
          /\ UNCHANGED err
       \/ Panic("flush")
    /\ UNCHANGED <<sanVars, envVars, visVars, binVars, run, inFile, outFile,
                   creates, produced>>

\* Line 114: File::open.
OpenInput ==
    /\ pc = "open_ascn"
    /\ \/ /\ inFile # "absent"
          /\ pc' = "read_ascn"
          /\ UNCHANGED <<err, held>>
       \/ Panic("open")
    /\ UNCHANGED <<sanVars, envVars, visVars, binVars, run, inFile, outFile,
                   creates, produced>>

\* Lines 112-123: read_to_end, Reader::new, the loop's variables.
ReadToEnd ==
    /\ pc = "read_ascn"
    /\ \/ /\ reader' = NewReader(IF inFile = "truncated" THEN <<>> ELSE inBytes)
          /\ current_move' = 1
          /\ board' = DefaultBoard
          /\ movetext' = <<>>
          /\ pc' = "loop"
          /\ UNCHANGED <<err, held>>
       \/ /\ Panic("read")
          /\ UNCHANGED <<reader, current_move, board, movetext>>
    /\ UNCHANGED <<sanVars, envVars, visVars, run, inFile, outFile, creates,
                   produced, outcome, piece, stream>>

\* Lines 129-134: what one move adds to movetext.
LoopText(n, token, b) ==
    IF side_to_move(b) = "White"
    THEN Dec(n) \o <<".", " ">> \o token \o <<" ">>
    ELSE token \o <<" ">>

\* LoopCounter never counting.
LoopCounterStuck(n, b) == n

\* Line 131: the counter after one move.
LoopCounter(n, b) == IF side_to_move(b) = "White" THEN n + 1 ELSE n

\* Line 136: the board after one move.
LoopBoard(b, new_board) == new_board

\* Lines 125-137: one turn of the loop.
LoopStep ==
    /\ pc = "loop"
    /\ ReaderHasNext(reader)
    /\ LET chess_move == ReaderItem(reader)[1]
           new_board == ReaderItem(reader)[2]
       IN  /\ movetext' = movetext \o LoopText(current_move, get_san(chess_move, board), board)
           /\ current_move' = LoopCounter(current_move, board)
           /\ board' = LoopBoard(board, new_board)
           /\ stream' = Append(stream, Record(chess_move, board))
    /\ reader' = ReaderAdvance(reader)
    /\ UNCHANGED <<sanVars, envVars, visVars, run, inFile, outFile, held,
                   creates, pc, err, produced, outcome, piece>>

ResultOpen == <<"[", "R", "e", "s", "u", "l", "t", " ", "\"">>
ResultClose == <<"\"", "]", "\n", "\n">>

\* TextPieces without the outcome after the movetext.
TextPiecesNoTrailer(o, text) == <<ResultOpen, o, ResultClose, text>>

\* Lines 145-149: the parts of the format string and its arguments, in the
\* order write! hands them to the file.
TextPieces(o, text) == <<ResultOpen, o, ResultClose, text, o>>

RECURSIVE Concat(_)
Concat(ps) == IF ps = <<>> THEN <<>> ELSE Head(ps) \o Concat(Tail(ps))

\* Lines 139-143: the loop is over, the outcome string.
LoopEnd ==
    /\ pc = "loop"
    /\ ~ReaderHasNext(reader)
    /\ outcome' = OutcomeToString(IF get_outcome(reader) = None THEN "Unknown"
                                  ELSE get_outcome(reader))
    /\ produced' = Concat(TextPieces(outcome', movetext))
    /\ piece' = 1
    /\ pc' = "write_text"
    /\ UNCHANGED <<sanVars, envVars, visVars, run, inFile, outFile, held,
                   creates, err, reader, board, current_move, movetext, stream>>

\* Lines 145-150: write! writes the parts one after the other with write_all;
\* a part that fails may have gone out in part.
WriteText ==
    /\ pc = "write_text"
    /\ LET part == TextPieces(outcome, movetext)[piece]
       IN  \/ /\ outFile' = [outFile EXCEPT !.data = outFile.data \o part]
              /\ piece' = piece + 1
              /\ pc' = IF piece = Len(TextPieces(outcome, movetext))
                       THEN "flush" ELSE "write_text"
              /\ UNCHANGED <<err, held>>
           \/ /\ part # <<>>
              /\ \E k \in 0 .. Len(part) - 1 :
                    outFile' = [outFile EXCEPT !.data = outFile.data \o SubSeq(part, 1, k)]
              /\ Panic("write_text")
              /\ UNCHANGED piece
    /\ UNCHANGED <<sanVars, envVars, visVars, run, inFile, creates, produced,
                   reader, board, current_move, movetext, outcome, stream>>

\* The program is run again on the bytes it produced, written in full to a
\* file of their own.
Reconvert ==
    /\ pc = "done" /\ run = 1 /\ ext = "pgn"
    /\ outFile.data = produced
    /\ run' = 2
    /\ ext' = "ascn"
    /\ inBytes' = outFile.data
    /\ inFile' = "original"
    /\ samePath' = FALSE
    /\ outFile' \in {NoFile, OldFile}
    /\ pc' = "start" /\ err' = None /\ produced' = <<>>
    /\ creates' = 0
    /\ reader' = NewReader(<<>>) /\ board' = DefaultBoard
    /\ current_move' = 1 /\ movetext' = <<>> /\ outcome' = <<>>
    /\ piece' = 1 /\ stream' = <<>>
    /\ UNCHANGED <<sanVars, engine, visVars, held>>

Next ==
    \/ ParseExtension
    \/ CreateOutput
    \/ ReadToString
    \/ StartGame
    \/ EndGame
    \/ Header
    \/ SanEvent
    \/ SanUnresolved
    \/ EndOfInput
    \/ WriteData
    \/ Flush
    \/ OpenInput
    \/ ReadToEnd
    \/ LoopStep
    \/ LoopEnd
    \/ WriteText
    \/ Reconvert

Spec == Init /\ [][Next]_vars

\* ------------------------------------------------------------------------
\* get_san on its own: any move of the side to move, any board before it
\* ------------------------------------------------------------------------

\* The squares get_san is tried on.
SanSquares == {A1, E2, E4, D8, H7}

\* Boards with the mover on the source square, nothing or an enemy man on the
\* destination square, and nothing or an enemy pawn (the one an en-passant
\* capture takes) on the remaining squares.
SanBoards(src, dst) ==
    UNION { { [occ |-> [sq \in SanSquares |->
                         IF sq = src THEN Man(p, c)
                         ELSE IF sq = dst THEN target
                         ELSE other],
               side |-> c,
               checkers |-> {},
               anyMove |-> TRUE] :
              p \in Pieces,
              target \in {Empty} \cup {Man(q, Opposite(c)) : q \in Pieces \ {"King"}},
              other \in {Empty, Man("Pawn", Opposite(c))} } :
            c \in Colors }

SanInit ==
    /\ engine \in {[sq \in SanSquares |-> verdict] : verdict \in Verdicts}
    /\ \E src \in SanSquares, dst \in SanSquares :
          /\ src # dst
          /\ \E b \in SanBoards(src, dst),
                promo \in {None, "Queen", "Knight", "Rook", "Bishop"} :
                sanIn = [move |-> Move(src, dst, promo), board |-> b]
    /\ sanOut = <<>>
    /\ sanDone = FALSE
    /\ run = 1 /\ ext = None /\ samePath = FALSE /\ inBytes = <<>>
    /\ inFile = "absent" /\ outFile = NoFile
    /\ MainIdle

CallGetSan ==
    /\ ~sanDone
    /\ sanOut' = get_san(sanIn.move, sanIn.board)
    /\ sanDone' = TRUE
    /\ UNCHANGED <<envVars, visVars, binVars, sanIn, run, inFile, outFile,
                   held, creates, pc, err, produced>>

SanNext == CallGetSan

SpecSan == SanInit /\ [][SanNext]_vars

\* ------------------------------------------------------------------------
\* Properties
\* ------------------------------------------------------------------------

RECURSIVE Words(_, _)
\* The words of a text in which a space ends every word; cur is the word
\* being read.
Words(text, cur) ==
    IF text = <<>> THEN (IF cur = <<>> THEN <<>> ELSE <<cur>>)
    ELSE IF Head(text) = " " THEN <<cur>> \o Words(Tail(text), <<>>)
    ELSE Words(Tail(text), Append(cur, Head(text)))

IsLabel(w) == w # <<>> /\ Last(w) = "."

\* C1: after N half-moves from the initial board, the movetext holds exactly
\* ceil(N/2) move-number labels, they are 1, 2, ... in order, the word after
\* the label k is the token of White's k-th move, and no label stands before
\* a token of Black.
C1_MoveNumbers ==
    (ext = "ascn" /\ pc \in {"loop", "write_text", "flush", "done"}) =>
        LET W == Words(movetext, <<>>)
            N == Len(stream)
            labels == SelectSeq(W, IsLabel)
        IN  /\ Len(labels) = (N + 1) \div 2
            /\ \A k \in 1 .. Len(labels) : labels[k] = Dec(k) \o <<".">>
            /\ Len(W) = N + Len(labels)
            /\ \A i \in 1 .. N :
                  LET j == i + ((i + 1) \div 2)
                  IN  /\ j <= Len(W)
                      /\ W[j] = get_san(stream[i].move, stream[i].board)
                      /\ IsLabel(W[j - 1]) <=> (side_to_move(stream[i].board) = "White")
                      /\ IsLabel(W[j - 1]) => W[j - 1] = Dec((i + 1) \div 2) \o <<".">>

C1_Witness ==
    /\ ext = "ascn" /\ pc = "done" /\ run = 1
    /\ Len(stream) = 3
    /\ Len(SelectSeq(Words(movetext, <<>>), IsLabel)) = 2

\* C2: the outcome given to get_data was set in the game whose moves the
\* writer holds: an outcome set in one game is not written with the moves of
\* a later game.
C2_OutcomeOfSameGame ==
    (ext = "pgn" /\ pc \in {"write_pgn", "flush", "done"}
        /\ visitor.outcome # None /\ outcomeGame >= 1)
    => outcomeGame = games

\* C3: the token ends with "#" exactly when the position after the move is
\* checkmate, with "+" exactly when it has a checker and is not checkmate, has
\* neither sign anywhere otherwise, and never has both.
C3_Suffix ==
    sanDone =>
        LET new_board == make_move_new(sanIn.board, sanIn.move)
            mate == status(new_board) = "Checkmate"
            check == checkers(new_board) # {} /\ ~mate
            signs == Count(sanOut, "#") + Count(sanOut, "+")
        IN  /\ (Last(sanOut) = "#") <=> mate
            /\ (Last(sanOut) = "+") <=> check
            /\ (~mate /\ ~check) => signs = 0
            /\ signs <= 1

C3_Witness ==
    /\ sanDone
    /\ Last(sanOut) = "#"
    /\ sanIn.move.promotion = "Knight"
    /\ status(make_move_new(sanIn.board, sanIn.move)) = "Checkmate"

\* C4: the token holds an "x" exactly when the destination square is occupied
\* before the move, and then holds one, right after the source square's name
\* and right before the destination square's name.
C4_CaptureMarker ==
    sanDone =>
        LET occupied == piece_on(sanIn.board, get_dest(sanIn.move)) # None
        IN  /\ (Count(sanOut, "x") > 0) <=> occupied
            /\ occupied =>
                  /\ Count(sanOut, "x") = 1
                  /\ SubSeq(sanOut, 2, 3) = SquareName(get_source(sanIn.move))
                  /\ sanOut[4] = "x"
                  /\ SubSeq(sanOut, 5, 6) = SquareName(get_dest(sanIn.move))

C4_Witness ==
    /\ sanDone
    /\ sanOut[4] = "x"
    /\ piece_on(sanIn.board, get_dest(sanIn.move)) = "Queen"

\* A pawn takes towards an empty square while an enemy pawn stands beside:
\* the token has no "x".
C4_EnPassantWitness ==
    /\ sanDone
    /\ piece_on(sanIn.board, get_source(sanIn.move)) = "Pawn"
    /\ piece_on(sanIn.board, get_dest(sanIn.move)) = None
    /\ \E sq \in SanSquares : sq # get_source(sanIn.move)
                           /\ piece_on(sanIn.board, sq) = "Pawn"
    /\ Count(sanOut, "x") = 0

C6_TextShape ==
    (ext = "ascn" /\ pc = "done") =>
        LET token == IF get_outcome(reader) = None THEN UnknownToken
                     ELSE OutcomeToString(get_outcome(reader))
        IN  outFile.data = ResultOpen \o token \o <<"\"", "]", "\n", "\n">>
                           \o movetext \o token

C6_Witness ==
    /\ ext = "ascn" /\ pc = "done" /\ run = 1
    /\ get_outcome(reader) = None
    /\ Len(stream) = 2
    /\ outFile.data = ResultOpen \o <<"*", "\"", "]", "\n", "\n">> \o movetext \o <<"*">>

\* Nothing of this run's result is in the output file.
NothingWritten == outFile.old \/ outFile.data = <<>>

\* C7 as stated: after any failure, nothing of the result is in the output
\* file.
C7_NoPartialOutput == pc = "panic" => NothingWritten

\* C7, amended: a failure ends the run with the output file released; nothing
\* of the result is in the file unless the write! of the text or a flush
\* failed; a failed write! leaves a proper prefix of the text.
C7_AbortBeforeWrite ==
    pc = "panic" =>
        /\ ~held
        /\ err \in {"extension", "create", "open", "read", "resolve", "write"}
              => NothingWritten
        /\ err = "write_text"
              => /\ IsPrefix(outFile.data, produced)
                 /\ outFile.data # produced

C7_Witness ==
    /\ pc = "panic" /\ err = "resolve"
    /\ Len(visitor.writer) = 2
    /\ outFile = Created

\* C8: a run that ends without error leaves the whole result in the output
\* file, which was created once and is released.
C8_CompleteOnSuccess ==
    pc = "done" => (outFile.data = produced /\ creates = 1 /\ ~held)

\* C10: the output file is created only once the input has been read: a run
\* that cannot open or read its input has created nothing, and the input is
\* read as it was.
C10_CreateAfterRead ==
    /\ creates > 0 => pc \notin {"read_pgn", "open_ascn", "read_ascn"}
    /\ (pc = "panic" /\ err \in {"open", "read"}) => creates = 0
    /\ pc \in {"parse", "loop"} => inFile = "original"

RECURSIVE Replay(_, _)
\* The board after the moves of the first k records, from the initial board.
Replay(records, k) ==
    IF k = 0 THEN DefaultBoard
    ELSE make_move_new(Replay(records, k - 1), records[k].move)

\* C9: the k-th record of the writer holds a move that is legal on, and is
\* recorded with, the board reached from the initial board by the moves
\* before it; each record's move applied to its board gives the next
\* record's board; the visitor's board is the one after the last record.
C9_BoardChain ==
    LET w == visitor.writer
    IN  /\ \A k \in 1 .. Len(w) :
              /\ w[k].board = Replay(w, k - 1)
              /\ w[k].move \in LegalMoves(w[k].board)
        /\ \A i \in 1 .. Len(w) - 1 :
              make_move_new(w[i].board, w[i].move) = w[i + 1].board
        /\ visitor.board = Replay(w, Len(w))

C9_Witness ==
    /\ pc = "parse" /\ games = 1
    /\ Len(visitor.writer) = 3

====
